---- MODULE Spec2Model ----
(***************************************************************************)
(* KeypointObjectDetector (dodo_detector/KeypointObjectDetector.py).       *)
(*                                                                         *)
(* The detector's fields, its constructor and from_image are modelled as   *)
(* a state machine (Spec).  _detect_object is the operator detect_object;  *)
(* SpecDetect applies it to drawn arguments, SpecFilter applies the ratio  *)
(* filter of its lines 109-114 to drawn knnMatch results.                  *)
(*                                                                         *)
(* What OpenCV computes is an input of the model: the descriptors that     *)
(* detectAndCompute finds, the neighbours that knnMatch returns, the       *)
(* matrix of findHomography and the corners perspectiveTransform projects. *)
(*                                                                         *)
(* Representation.                                                         *)
(*  - A string is the sequence of its characters, so that name[0] and      *)
(*    basename are computed.                                               *)
(*  - A value that may be None is a sequence of length <= 1: <<>> is None  *)
(*    and <<v>> is v.                                                      *)
(*  - A descriptor array is known by its number of rows.                   *)
(*  - A knnMatch result is run-length encoded: a run is `times`            *)
(*    consecutive query descriptors whose neighbours lie at the distances  *)
(*    `nbrs` (best first).  good holds one run per accepted run, so        *)
(*    len(good) is the sum of the times of its runs.                       *)
(*  - Distances are whole numbers; m.distance < 0.7 * n.distance is        *)
(*    10 * m < 7 * n.  DMatch distances are float32 values and the         *)
(*    product is taken in double precision: for such operands the rounded  *)
(*    comparison and the exact one agree.                                  *)
(*  - Corner coordinates stay far below 2^31, where the int32 arithmetic   *)
(*    of lines 140 and 192 is exact.                                       *)
(***************************************************************************)
EXTENDS Integers, Sequences, FiniteSets, TLC

VARIABLES
    pc,                \* "new" | "failed" | "idle" | "loop" | "call" | "returned" | "filter" | "filtered"
    database,          \* the entries of the directory database_path
    detector,          \* self.detector: "SIFT" | "SURF" | "unset"
    matcher,           \* self.matcher: "BF" | "FLANN" | "unset"
    objects,           \* self.objects
    object_counters,   \* self.object_counters
    object_features,   \* self.object_features: name -> sequence of descriptor arrays
    current_frame,     \* self.current_frame
    scene_des,         \* from_image: scene_des
    next_obj,          \* from_image: position of the loop of line 159
    detected_objects,  \* from_image: detected_objects
    outcome,           \* how the last from_image ended, and what it returned
    accepted,          \* history: per class, the _detect_object calls that returned a region
    frame_log,         \* history: this frame's accepted localizations, <<name, rct>>
    frame_candidate,   \* history: this frame had an image with len(good) > min_points
    counters_before,   \* history: object_counters when the frame began
    call,              \* SpecDetect: arguments and outcome of one _detect_object call
    matches,           \* SpecFilter: the knnMatch result
    good               \* SpecFilter: the accepted correspondences

vars == <<pc, database, detector, matcher, objects, object_counters, object_features,
          current_frame, scene_des, next_obj, detected_objects, outcome, accepted,
          frame_log, frame_candidate, counters_before, call, matches, good>>

---------------------------------------------------------------------------
\* Bounds of the model.

\* reference images of a class
MaxImages == 2
\* from_image calls per run
MaxFrames == 2
\* runs of a drawn knnMatch result (SpecFilter)
MaxRuns == 3

---------------------------------------------------------------------------
\* Program constants.

min_points == 200
min_object_height == 10
min_object_width == 10
min_object_area == min_object_height * min_object_width

IGNORE == <<"I", "G", "N", "O", "R", "E">>

None == <<>>
Some(v) == <<v>>

---------------------------------------------------------------------------
\* Input sets.

\* directory entries a database root may hold
Entries == { <<"m">>, <<"m", "u", "g">>, IGNORE }

DetectorTypes == {"SIFT", "RootSIFT", "SURF", "ORB"}
MatcherTypes == {"BF", "FLANN", "KNN"}

\* descs of detectAndCompute: None (no keypoint), or an array of rows
DesValues == {None, Some(0), Some(250)}

\* descs of the reference images of a loaded database
LoadedDes == {None, Some(250)}

\* files of a class directory of a loaded database; the loop over a class's
\* images is explored to MaxImages in SpecDetect
MaxFiles == MaxImages - 1

\* neighbours of one query descriptor, best first
NeighbourLists == { <<>>, <<50>>, <<69, 100>>, <<70, 100>>, <<71, 100>>, <<0, 0>> }

Run(nbrs, times) == [nbrs |-> nbrs, times |-> times]

SeqsUpTo(S, n) == UNION { [1..k -> S] : k \in 0..n }

\* knnMatch results of SpecFilter
FilterRuns == { Run(nb, t) : nb \in NeighbourLists, t \in {1, 2} }
MatchLists == SeqsUpTo(FilterRuns, MaxRuns)

\* knnMatch results of a frame: 0, min_points and min_points + 1 matches that
\* pass the ratio test, the second and fourth among matches that fail it
KnnResults ==
    { <<>>,
      << Run(<<69, 100>>, min_points), Run(<<71, 100>>, 1) >>,
      << Run(<<69, 100>>, min_points + 1) >>,
      << Run(<<69, 100>>, min_points), Run(<<70, 100>>, 5), Run(<<69, 100>>, 1) >> }

\* np.int32(cv2.perspectiveTransform(pts, M)): the 4 projected corners <<x, y>>
Quads ==
    { << <<0, 0>>, <<0, 5>>, <<5, 5>>, <<5, 0>> >>,
      << <<1, 2>>, <<1, 11>>, <<21, 11>>, <<21, 2>> >>,
      << <<1, 2>>, <<1, 22>>, <<10, 22>>, <<10, 2>> >>,
      << <<3, 4>>, <<3, 14>>, <<13, 14>>, <<13, 4>> >>,
      << <<3, 4>>, <<3, 19>>, <<15, 19>>, <<15, 4>> >>,
      << <<2, 1>>, <<0, 30>>, <<40, 33>>, <<38, 0>> >> }

\* what OpenCV yields for one reference image against the scene: the knnMatch
\* result and the projected corners, None when findHomography found no matrix
ImageInputs == [matches : KnnResults, projected : {None} \cup { Some(q) : q \in Quads }]

\* the same for the frames of a detector's life: fewer of them
FrameInputs ==
    [matches : { << Run(<<69, 100>>, min_points), Run(<<71, 100>>, 1) >>,
                 << Run(<<69, 100>>, min_points + 1) >> },
     projected : { None,
                   Some(<< <<0, 0>>, <<0, 5>>, <<5, 5>>, <<5, 0>> >>),
                   Some(<< <<3, 4>>, <<3, 19>>, <<15, 19>>, <<15, 4>> >>) }]

---------------------------------------------------------------------------
\* _detect_object, lines 100-146.

\* line 113, with the comparison turned round
ratio_test_nonstrict(m, n) == 10 * m <= 7 * n

\* line 113: m.distance < 0.7 * n.distance
ratio_test(m, n) == 10 * m < 7 * n

\* lines 109-114: the matches from run i on that pass the filter, in order.  An
\* accepted run keeps its place among the matches (queryRun) and m.distance.
RECURSIVE good_from(_, _)
good_from(knn, i) ==
    IF i > Len(knn) THEN <<>>
    ELSE LET match == knn[i].nbrs
             rest == good_from(knn, i + 1)
         IN  IF Len(match) = 2
             THEN IF ratio_test(match[1], match[2])
                  THEN << [queryRun |-> i, distance |-> match[1],
                           times |-> knn[i].times] >> \o rest
                  ELSE rest
             ELSE rest

good_matches(knn) == good_from(knn, 1)

\* len(good)
RECURSIVE len_good(_)
len_good(g) == IF g = <<>> THEN 0 ELSE Head(g).times + len_good(Tail(g))

\* line 117, with >= for >
enough_points_inclusive(g) == len_good(g) >= min_points

\* line 117: len(good) > self.min_points
enough_points(g) == len_good(g) > min_points

\* line 106: des is not None and len(des) > 0
has_descriptors(des) == des # None /\ des[1] > 0

min_of(S) == CHOOSE v \in S : \A u \in S : v <= u
max_of(S) == CHOOSE v \in S : \A u \in S : v >= u

\* _extract_rectangle, lines 184-192: dst[i] = <<x, y>>
extract_rectangle(dst) ==
    LET min_y == min_of({ dst[i][2] : i \in 1..4 })
        max_y == max_of({ dst[i][2] : i \in 1..4 })
        min_x == min_of({ dst[i][1] : i \in 1..4 })
        max_x == max_of({ dst[i][1] : i \in 1..4 })
    IN  << min_x, min_y, max_x - min_x, max_y - min_y >>

\* line 140, with the width and height tests joined by "and"
too_small_both(w, h) ==
    (w < min_object_width /\ h < min_object_height) \/ w * h < min_object_area

\* line 140: the size check that rejects a projected box
too_small(w, h) ==
    w < min_object_width \/ h < min_object_height \/ w * h < min_object_area

\* what a call of _detect_object does: how it ends ("return" or "raise"), the
\* pair it returns, whether line 118 ran (incr), and the number of reference
\* images whose loop body was entered (tried)
DetectResult(status, error, homography, rct, incr, tried) ==
    [status |-> status, error |-> error, homography |-> homography, rct |-> rct,
     incr |-> incr, tried |-> tried]

\* lines 103-146, from reference image i on.  inputs[i] is what OpenCV yields
\* for image i.
RECURSIVE detect_from(_, _, _, _, _)
detect_from(mtch, img_features, scene, inputs, i) ==
    IF i > Len(img_features)
    THEN DetectResult("return", "", None, None, 0, Len(img_features))       \* line 146
    ELSE
      IF has_descriptors(img_features[i]) /\ has_descriptors(scene)        \* line 106
      THEN
        IF mtch = "unset"
        THEN DetectResult("raise", "AttributeError", None, None, 0, i)     \* line 107
        ELSE
          LET g == good_matches(inputs[i].matches)                         \* lines 107-114
          IN  IF enough_points(g)                                          \* line 117
              THEN
                IF inputs[i].projected = None
                THEN \* line 130: perspectiveTransform(pts, None) raises, after line 118
                     DetectResult("raise", "cv2.error", None, None, 1, i)
                ELSE
                  LET dst == inputs[i].projected[1]
                      r == extract_rectangle(dst)                          \* line 134
                  IN  IF too_small(r[3], r[4])                             \* line 140
                      THEN DetectResult("return", "", None, None, 1, i)    \* break, line 146
                      ELSE DetectResult("return", "", Some(dst), Some(r), 1, i)  \* line 144
              ELSE detect_from(mtch, img_features, scene, inputs, i + 1)
      ELSE detect_from(mtch, img_features, scene, inputs, i + 1)

\* _detect_object(name, img_features, scene): the counter of line 118 is the
\* caller's to apply (incr)
detect_object(mtch, img_features, scene, inputs) ==
    detect_from(mtch, img_features, scene, inputs, 1)

---------------------------------------------------------------------------
\* Values of the variables a specification does not use.

EmptyMap == [k \in {} |-> <<>>]
NoCall == [state |-> "none"]
NoOutcome == [kind |-> "none", error |-> "", detections |-> EmptyMap]
NoInput == [matches |-> <<>>, projected |-> None]

Raised(error) == [kind |-> "raised", error |-> error, detections |-> EmptyMap]
Returned(detections) == [kind |-> "returned", error |-> "", detections |-> detections]

Range(s) == { s[i] : i \in 1..Len(s) }

\* OpenCV is asked about reference image i only where line 107 is reached with
\* a matcher: elsewhere there is nothing to draw
InputsFor(mtch, img_features, scene, Drawn) ==
    { f \in [1..Len(img_features) -> Drawn \cup {NoInput}] :
        \A i \in 1..Len(img_features) :
            IF mtch # "unset" /\ has_descriptors(img_features[i]) /\ has_descriptors(scene)
            THEN f[i] \in Drawn
            ELSE f[i] = NoInput }

---------------------------------------------------------------------------
\* The vocabulary of the properties, stated on what OpenCV yields and not on
\* what the code makes of it.

\* a query descriptor's neighbours pass the ratio test at ratio 0.7
Passes(nbrs) == Len(nbrs) = 2 /\ 100 * nbrs[1] < 70 * nbrs[2]

RECURSIVE SumOver(_, _)
SumOver(f, S) ==
    IF S = {} THEN 0
    ELSE LET i == CHOOSE x \in S : TRUE IN f[i] + SumOver(f, S \ {i})

\* the number of accepted correspondences of a knnMatch result
AcceptedCount(knn) ==
    SumOver([i \in 1..Len(knn) |-> knn[i].times],
            { i \in 1..Len(knn) : Passes(knn[i].nbrs) })

\* reference image i of a call is a candidate: it was matched and has more
\* than 200 accepted correspondences
IsCandidate(inputs, i) ==
    inputs[i] # NoInput /\ AcceptedCount(inputs[i].matches) > 200

\* the axis-aligned bounding box of 4 corners
BoxOf(q) ==
    LET xs == { q[i][1] : i \in 1..4 }
        ys == { q[i][2] : i \in 1..4 }
        W == CHOOSE d \in { a - b : a, b \in xs } : \A e \in { a - b : a, b \in xs } : d >= e
        H == CHOOSE d \in { a - b : a, b \in ys } : \A e \in { a - b : a, b \in ys } : d >= e
        X == CHOOSE a \in xs : \A b \in xs : a <= b
        Y == CHOOSE a \in ys : \A b \in ys : a <= b
    IN  << X, Y, W, H >>

LargeEnough(b) == b[3] >= 10 /\ b[4] >= 10 /\ b[3] * b[4] >= 100

---------------------------------------------------------------------------
\* SpecFilter: the filter of lines 109-114 on a drawn knnMatch result.

InitFilter ==
    /\ pc = "filter"
    /\ matches \in MatchLists
    /\ good = <<>>
    /\ database = {} /\ detector = "SIFT" /\ matcher = "BF"
    /\ objects = <<>> /\ object_counters = EmptyMap /\ object_features = EmptyMap
    /\ current_frame = 0 /\ scene_des = None /\ next_obj = 0
    /\ detected_objects = EmptyMap /\ outcome = NoOutcome
    /\ accepted = EmptyMap /\ frame_log = <<>> /\ frame_candidate = FALSE
    /\ counters_before = EmptyMap /\ call = NoCall

\* lines 109-114
ratio_filter ==
    /\ pc = "filter"
    /\ good' = good_matches(matches)
    /\ pc' = "filtered"
    /\ UNCHANGED <<database, detector, matcher, objects, object_counters, object_features,
                   current_frame, scene_des, next_obj, detected_objects, outcome, accepted,
                   frame_log, frame_candidate, counters_before, call, matches>>

NextFilter == ratio_filter

SpecFilter == InitFilter /\ [][NextFilter]_vars

---------------------------------------------------------------------------
\* SpecDetect: one call of _detect_object on drawn arguments.

DetectName == <<"m", "u", "g">>

InitDetect ==
    /\ pc = "call"
    /\ matcher \in {"BF", "FLANN", "unset"}
    /\ detector = "SIFT"
    /\ database = {DetectName}
    /\ objects = <<DetectName>>
    /\ object_counters = [n \in {DetectName} |-> 0]
    /\ \E img_features \in SeqsUpTo(DesValues, MaxImages) :
         /\ object_features = [n \in {DetectName} |-> img_features]
         /\ \E scene \in DesValues :
              \E inputs \in InputsFor(matcher, img_features, scene, ImageInputs) :
                  call = [state |-> "pending", name |-> DetectName, scene |-> scene,
                          inputs |-> inputs]
    /\ current_frame = 0 /\ scene_des = None /\ next_obj = 0
    /\ detected_objects = EmptyMap /\ outcome = NoOutcome
    /\ accepted = [n \in {DetectName} |-> 0]
    /\ frame_log = <<>> /\ frame_candidate = FALSE
    /\ counters_before = [n \in {DetectName} |-> 0]
    /\ matches = <<>> /\ good = <<>>

\* _detect_object(name, self.object_features[name], scene), lines 100-146
detect_object_call ==
    /\ pc = "call"
    /\ LET r == detect_object(matcher, object_features[call.name], call.scene, call.inputs)
       IN  /\ object_counters' = [object_counters EXCEPT ![call.name] = @ + r.incr]  \* line 118
           /\ call' = [state |-> "done", name |-> call.name, scene |-> call.scene,
                       inputs |-> call.inputs, result |-> r]
    /\ pc' = "returned"
    /\ UNCHANGED <<database, detector, matcher, objects, object_features,
                   current_frame, scene_des, next_obj, detected_objects, outcome, accepted,
                   frame_log, frame_candidate, counters_before, matches, good>>

NextDetect == detect_object_call

SpecDetect == InitDetect /\ [][NextDetect]_vars

---------------------------------------------------------------------------
\* Spec: the detector, from before its construction on.

\* os.path.basename: what follows the last "/"
RECURSIVE basename(_)
basename(p) == IF \E i \in 1..Len(p) : p[i] = "/" THEN basename(Tail(p)) ELSE p

\* line 43 without its filter
listed_objects_unfiltered(listing) == [i \in 1..Len(listing) |-> basename(listing[i])]

\* line 43: [os.path.basename(d) for d in os.listdir(...) if d != 'IGNORE']
listed_objects(listing) ==
    LET kept(d) == d # IGNORE
        ds == SelectSeq(listing, kept)
    IN  [i \in 1..Len(ds) |-> basename(ds[i])]

\* lines 27-30: an unrecognized detector_type leaves self.detector unset
select_detector(detector_type) ==
    IF detector_type \in {"SIFT", "RootSIFT"} THEN "SIFT"
    ELSE IF detector_type = "SURF" THEN "SURF"
    ELSE "unset"

\* lines 33-39: an unrecognized matcher_type leaves self.matcher unset
select_matcher(matcher_type) ==
    IF matcher_type = "BF" THEN "BF"
    ELSE IF matcher_type = "FLANN" THEN "FLANN"
    ELSE "unset"

\* the listings os.listdir(database_path) may give: entries in any order
Listings ==
    { l \in SeqsUpTo(Entries, Cardinality(Entries)) :
        \A i, j \in 1..Len(l) : i # j => l[i] # l[j] }

\* line 168: obj_features[0], the first character of the class name
first_char(name) == SubSeq(name, 1, 1)

put(map, k, v) == [x \in DOMAIN map \cup {k} |-> IF x = k THEN v ELSE map[x]]

Init ==
    /\ pc = "new"
    /\ database \in SUBSET Entries
    /\ detector = "unset" /\ matcher = "unset"
    /\ objects = <<>> /\ object_counters = EmptyMap /\ object_features = EmptyMap
    /\ current_frame = 0 /\ scene_des = None /\ next_obj = 0
    /\ detected_objects = EmptyMap /\ outcome = NoOutcome
    /\ accepted = EmptyMap /\ frame_log = <<>> /\ frame_candidate = FALSE
    /\ counters_before = EmptyMap /\ call = NoCall
    /\ matches = <<>> /\ good = <<>>

\* __init__, lines 16-60, with _load_features, lines 72-98.  os.listdir gives
\* the entries in some order.  Each class directory holds up to MaxFiles
\* readable image files; detectAndCompute (line 91) gives each its
\* descriptors.  With self.detector unset, line 91 raises AttributeError at
\* the first file, and no instance comes to be.
init(detector_type, matcher_type) ==
    /\ pc = "new"
    /\ \E listing \in Listings :
        /\ Range(listing) = database
        /\ LET det == select_detector(detector_type)
               mat == select_matcher(matcher_type)
               objs == listed_objects(listing)
               names == Range(objs)
           IN  \E features \in [names -> SeqsUpTo(LoadedDes, MaxFiles)] :
                 IF det = "unset" /\ \E n \in names : Len(features[n]) > 0
                 THEN /\ pc' = "failed"
                      /\ outcome' = Raised("AttributeError")
                      /\ UNCHANGED <<detector, matcher, objects, object_counters,
                                     object_features, accepted, counters_before>>
                 ELSE /\ pc' = "idle"
                      /\ detector' = det
                      /\ matcher' = mat
                      /\ objects' = objs
                      /\ object_counters' = [n \in names |-> 0]
                      /\ object_features' = features
                      /\ accepted' = [n \in names |-> 0]
                      /\ counters_before' = [n \in names |-> 0]
                      /\ UNCHANGED outcome
    /\ UNCHANGED <<database, current_frame, scene_des, next_obj, detected_objects,
                   frame_log, frame_candidate, call, matches, good>>

\* from_image, lines 149-157.  With self.detector unset line 152 raises.
from_image_begin ==
    /\ pc = "idle"
    /\ current_frame < MaxFrames
    /\ current_frame' = current_frame + 1
    /\ frame_log' = <<>>
    /\ frame_candidate' = FALSE
    /\ counters_before' = object_counters
    /\ IF detector = "unset"
       THEN /\ outcome' = Raised("AttributeError")
            /\ UNCHANGED <<pc, scene_des, next_obj, detected_objects>>
       ELSE /\ \E des \in DesValues : scene_des' = des
            /\ detected_objects' = EmptyMap
            /\ next_obj' = 1
            /\ pc' = "loop"
            /\ outcome' = NoOutcome
    /\ UNCHANGED <<database, detector, matcher, objects, object_counters, object_features,
                   accepted, call, matches, good>>

\* from_image, lines 159-179: the loop body for the next class.  An exception
\* of _detect_object, or of line 179, ends from_image.
from_image_object ==
    /\ pc = "loop"
    /\ next_obj <= Len(objects)
    /\ LET obj_features == objects[next_obj]
           features == object_features[obj_features]
       IN  \E inputs \in InputsFor(matcher, features, scene_des, FrameInputs) :
             LET r == detect_object(matcher, features, scene_des, inputs)   \* line 161
                 rct == r.rct
                 object_name == first_char(obj_features)                    \* line 168
                 box == << rct[1][2], rct[1][1],
                           rct[1][2] + rct[1][4], rct[1][1] + rct[1][3] >>  \* lines 164-167
                 boxes == IF object_name \in DOMAIN detected_objects
                          THEN detected_objects[object_name] ELSE <<>>      \* lines 170-171
             IN  /\ object_counters' =
                        [object_counters EXCEPT ![obj_features] = @ + r.incr]  \* line 118
                 /\ frame_candidate' =
                        (frame_candidate
                            \/ \E i \in 1..Len(features) : IsCandidate(inputs, i))
                 /\ IF r.status = "raise"
                    THEN /\ outcome' = Raised(r.error)
                         /\ pc' = "idle"
                         /\ next_obj' = 0 /\ scene_des' = None
                         /\ detected_objects' = EmptyMap
                         /\ UNCHANGED <<accepted, frame_log>>
                    ELSE IF rct # None
                    THEN /\ accepted' = [accepted EXCEPT ![obj_features] = @ + 1]
                         /\ frame_log' = Append(frame_log, <<obj_features, rct[1]>>)
                         /\ IF object_name \in DOMAIN object_counters       \* line 179
                            THEN /\ detected_objects' =
                                        put(detected_objects, object_name,
                                            Append(boxes, box))             \* line 173
                                 /\ next_obj' = next_obj + 1
                                 /\ UNCHANGED <<pc, outcome, scene_des>>
                            ELSE /\ outcome' = Raised("KeyError")
                                 /\ pc' = "idle"
                                 /\ next_obj' = 0 /\ scene_des' = None
                                 /\ detected_objects' = EmptyMap
                    ELSE /\ next_obj' = next_obj + 1
                         /\ UNCHANGED <<pc, outcome, scene_des, detected_objects,
                                        accepted, frame_log>>
    /\ UNCHANGED <<database, detector, matcher, objects, object_features,
                   current_frame, counters_before, call, matches, good>>

\* from_image, line 181
from_image_return ==
    /\ pc = "loop"
    /\ next_obj > Len(objects)
    /\ outcome' = Returned(detected_objects)
    /\ pc' = "idle"
    /\ next_obj' = 0 /\ scene_des' = None
    /\ detected_objects' = EmptyMap
    /\ UNCHANGED <<database, detector, matcher, objects, object_counters, object_features,
                   current_frame, accepted, frame_log, frame_candidate, counters_before,
                   call, matches, good>>

Next ==
    \/ \E detector_type \in DetectorTypes, matcher_type \in MatcherTypes :
           init(detector_type, matcher_type)
    \/ from_image_begin
    \/ from_image_object
    \/ from_image_return

Spec == Init /\ [][Next]_vars

---------------------------------------------------------------------------
\* Properties.

CallDone == pc = "returned" /\ call.state = "done"
CallImages == 1..Len(object_features[call.name])
Candidates == { i \in CallImages : IsCandidate(call.inputs, i) }
FirstCandidate == CHOOSE i \in Candidates : \A j \in Candidates : i <= j
FrameEnded == pc = "idle" /\ current_frame > 0 /\ outcome.kind # "none"

\* C1: the counter of every class equals the number of its accepted
\* localizations, the _detect_object calls for it that returned a region: a
\* candidate that the size check rejects leaves it as it was.  (Stated where
\* the last from_image did not end in an exception.)
C1_CounterCountsAccepted ==
    outcome.kind # "raised" =>
        \A c \in DOMAIN object_counters : object_counters[c] = accepted[c]

\* C2: when a frame's _detect_object call accepts a localization [x, y, w, h]
\* for class C, from_image returns normally and its detections map holds
\* (y, x, y + h, x + w) under the key C; every key of a returned map is the
\* name of a class of the database.
C2_BoxUnderClassName ==
    FrameEnded =>
        /\ \A i \in 1..Len(frame_log) :
             LET C == frame_log[i][1]
                 r == frame_log[i][2]
             IN  /\ outcome.kind = "returned"
                 /\ C \in DOMAIN outcome.detections
                 /\ \E j \in 1..Len(outcome.detections[C]) :
                        outcome.detections[C][j] = << r[2], r[1], r[2] + r[4], r[1] + r[3] >>
        /\ DOMAIN outcome.detections \subseteq Range(objects)

\* C3: a frame in which no reference image of any class has more than
\* min_points accepted correspondences ends without an exception, with an
\* empty detections map and every counter as it was.
C3_NoCandidateNoDetection ==
    (FrameEnded /\ ~frame_candidate) =>
        /\ outcome.kind = "returned"
        /\ outcome.detections = EmptyMap
        /\ object_counters = counters_before

\* C4: when the first candidate of a call has more than min_points accepted
\* correspondences and findHomography yields no matrix, _detect_object does
\* not raise and returns NotFound.
C4_FailedHomographyIsNotFound ==
    (CallDone /\ Candidates # {} /\ call.inputs[FirstCandidate].projected = None) =>
        /\ call.result.status = "return"
        /\ call.result.rct = None
        /\ call.result.homography = None

\* C5: _detect_object returns a region only if the bounding box
\* (min_x, min_y, max_x - min_x, max_y - min_y) of the 4 projected corners of
\* the image it decided on has width >= 10, height >= 10 and area >= 100, and
\* the box it returns is that box.
C5_RegionOnlyIfLargeEnough ==
    (CallDone /\ call.result.rct # None) =>
        /\ call.result.tried \in CallImages
        /\ call.inputs[call.result.tried].projected # None
        /\ LET b == BoxOf(call.inputs[call.result.tried].projected[1])
           IN  LargeEnough(b) /\ call.result.rct = Some(b)

\* a candidate whose corners project to a 5x5 box was decided on, and the
\* result is NotFound
C5_Witness ==
    /\ CallDone
    /\ call.result.status = "return"
    /\ call.result.incr = 1
    /\ call.result.rct = None
    /\ call.inputs[call.result.tried].projected # None
    /\ BoxOf(call.inputs[call.result.tried].projected[1]) = <<0, 0, 5, 5>>

\* C6: every key of a returned detections map has at most one bounding box.
C6_AtMostOneBoxPerKey ==
    (FrameEnded /\ outcome.kind = "returned") =>
        \A k \in DOMAIN outcome.detections : Len(outcome.detections[k]) <= 1

\* C7: with a directory named IGNORE in the database root, IGNORE is never a
\* key of object_counters, of object_features or of a detections map.
C7_IgnoreIsNoKey ==
    IGNORE \in database =>
        /\ IGNORE \notin DOMAIN object_counters
        /\ IGNORE \notin DOMAIN object_features
        /\ IGNORE \notin DOMAIN detected_objects
        /\ IGNORE \notin DOMAIN outcome.detections

\* a detector of a database with IGNORE returned a detection
C7_Witness ==
    /\ IGNORE \in database
    /\ FrameEnded
    /\ outcome.kind = "returned"
    /\ outcome.detections # EmptyMap

\* C8: no detector whose feature detector or matcher is unset comes out of
\* the constructor.
C8_NoUnsetDetectorOrMatcher ==
    pc \in {"idle", "loop"} => (detector # "unset" /\ matcher # "unset")

C10_RatioFilter ==
    pc = "filtered" =>
        /\ \A i \in 1..Len(matches) :
             Passes(matches[i].nbrs) <=> \E j \in 1..Len(good) : good[j].queryRun = i
        /\ \A j \in 1..Len(good) :
             /\ good[j].queryRun \in 1..Len(matches)
             /\ good[j].distance = matches[good[j].queryRun].nbrs[1]
             /\ good[j].times = matches[good[j].queryRun].times
        /\ \A j, k \in 1..Len(good) : j < k => good[j].queryRun < good[k].queryRun
        /\ \A i \in 1..Len(matches) :
             LET in_good == \E j \in 1..Len(good) : good[j].queryRun = i
             IN  /\ matches[i].nbrs = <<69, 100>> => in_good
                 /\ matches[i].nbrs \in { <<70, 100>>, <<71, 100>> } => ~in_good
                 /\ Len(matches[i].nbrs) < 2 => ~in_good

\* matches at ratio 0.70, with one neighbour and at ratio 0.69, of which the
\* last alone is accepted
C10_Witness ==
    /\ pc = "filtered"
    /\ Len(matches) = 3
    /\ matches[1].nbrs = <<70, 100>>
    /\ matches[2].nbrs = <<50>>
    /\ matches[3].nbrs = <<69, 100>>
    /\ Len(good) = 1
    /\ good[1].queryRun = 3

====
